---- MODULE Spec2Model ----
(***************************************************************************)
(* A model of the slander-detection pipeline:                              *)
(*   SlanderAnalyzer.analyze_multiple_texts     (SpecBatch)                *)
(*   SlanderAnalyzer.calculate_overall_analysis (SpecAgg)                  *)
(*   QueryGenerator.generate_queries            (SpecPlan)                 *)
(*   the parse steps and TwitterSearchQuery,                               *)
(*   each applied to one input                  (SpecUnits)                *)
(*   TwitterTool.search_tweets                  (SpecSearch)               *)
(*   the runs of main.py, one per click         (SpecRun)                  *)
(* The language model is an untrusted collaborator: every invocation       *)
(* either raises or returns some text, chosen nondeterministically.        *)
(*                                                                         *)
(* Scores are floats in the program.  Here a score is an integer number    *)
(* of tenths (One = 1.0) and a quotient is an exact fraction num/den.      *)
(***************************************************************************)
EXTENDS Integers, Sequences, FiniteSets, TLC

VARIABLES
    \* ---- analyze_multiple_texts
    texts,          \* the items passed in (item i is labelled "Content i")
    attempt,        \* the loop variable of analyze_multiple_texts
    batch_pc,       \* "idle" | "attempting" | "returned" | "fallback" | "raised"
    batch_result,   \* the list the call returned (<<>> before it returns)
    batch_response, \* the model's answer that the returned results were built from
    last_error,     \* the exception caught by the latest failed attempt
    batch_calls,    \* number of self.llm.invoke calls made by this call
    batch_sleeps,   \* number of time.sleep(1) calls made by this call
    \* ---- calculate_overall_analysis
    results,        \* the assessments passed in
    agg_pc,         \* "idle" | "called" | "returned" | "raised"
    overall,        \* the OverallAnalysis returned
    agg_response,   \* the model's answer to the narrative invocation
    agg_calls,      \* number of self.llm.invoke calls made by this call
    \* ---- generate_queries
    plan_attempt,   \* the loop variable of generate_queries
    plan_pc,        \* "idle" | "attempting" | "returned" | "fallback" | "raised"
    plan,           \* the SearchQueries returned
    plan_response,  \* the model's answer that the returned plan was built from
    plan_error,     \* the exception caught by the latest failed attempt
    plan_calls,     \* number of self.llm.invoke calls made by this call
    plan_sleeps,    \* number of time.sleep(1) calls made by this call
    \* ---- one parse step, or one TwitterSearchQuery construction
    unit_pc,        \* "idle" | "ready" | "done"
    unit_input,     \* what the step is applied to
    unit_outcome,   \* what the step gave: a value, or the exception it raised
    \* ---- search_tweets
    search_pc,      \* "idle" | "called" | "returned" | "raised"
    search_args,    \* the arguments of the call
    search_reply,   \* what the API answered to the request
    search_requests,\* number of requests.get calls made by this call
    search_result,  \* the list the call returned
    search_error,   \* the exception the call raised
    \* ---- main.py: the runs started by the Start Analysis button
    run_pc,         \* "idle" | "searching" | "scoring" | "aggregating"
    run_count,      \* number of runs started
    run_plan,       \* search_requests, the plan of the current run
    run_index,      \* position of the Twitter search loop in the plan
    run_analyses,   \* analyses, what the batch scoring returned
    session,        \* st.session_state, kept from one run to the next
    run_log         \* the calls and reports of the current run, in order

batch_vars == <<texts, attempt, batch_pc, batch_result, batch_response,
                last_error, batch_calls, batch_sleeps>>
agg_vars == <<results, agg_pc, overall, agg_response, agg_calls>>
plan_vars == <<plan_attempt, plan_pc, plan, plan_response, plan_error,
               plan_calls, plan_sleeps>>
unit_vars == <<unit_pc, unit_input, unit_outcome>>
search_vars == <<search_pc, search_args, search_reply, search_requests,
                 search_result, search_error>>
run_vars == <<run_pc, run_count, run_plan, run_index, run_analyses, session, run_log>>
vars == <<batch_vars, agg_vars, plan_vars, unit_vars, search_vars, run_vars>>

----------------------------------------------------------------------------
(* Bounds of the model *)

\* most items handed to analyze_multiple_texts
MaxItems == 2
\* most entries a model response lists under content_analyses
MaxEntries == 2
\* most assessments handed to calculate_overall_analysis
MaxResults == 2

(* Program constants *)

\* the score 1.0, in tenths
One == 10
\* max_retries of analyze_multiple_texts
max_retries == 3

----------------------------------------------------------------------------
(* YAML values, as yaml.safe_load returns them.  A value is a record with  *)
(* one field that names its Python type.                                   *)

Null == [null |-> TRUE]
Str(s) == [str |-> s]
Num(n) == [num |-> n]
List(seq) == [list |-> seq]
\* a calendar date, as YAML decodes an unquoted YYYY-MM-DD; d is a day number
Date(d) == [date |-> d]
\* the string that is the YYYY-MM-DD text of day d
IsoStr(d) == [iso |-> d]
\* a dict; f is a record, its fields the keys (<<>> is the empty dict)
Map(f) == [map |-> f]

IsNull(v) == "null" \in DOMAIN v
IsStr(v) == "str" \in DOMAIN v
IsNum(v) == "num" \in DOMAIN v
IsList(v) == "list" \in DOMAIN v
IsDate(v) == "date" \in DOMAIN v
IsIso(v) == "iso" \in DOMAIN v
IsMap(v) == "map" \in DOMAIN v

\* Python truth value: None, "", 0, [] and {} are false
Truthy(v) ==
    CASE IsNull(v) -> FALSE
      [] IsStr(v) -> v.str # ""
      [] IsNum(v) -> v.num # 0
      [] IsList(v) -> v.list # <<>>
      [] IsMap(v) -> DOMAIN v.map # {}
      [] OTHER -> TRUE

----------------------------------------------------------------------------
(* Text of a model response.                                               *)
(* The content of a response is a sequence of chunks: the two fence        *)
(* markers (three backquotes, with or without the word yaml), white space, *)
(* and YAML text, which the decoder either rejects (malformed) or turns    *)
(* into a value.                                                           *)

FenceYaml == [t |-> "fence_yaml"]
Fence == [t |-> "fence"]
Ws == [t |-> "ws"]
YamlText(v) == [t |-> "yaml", malformed |-> FALSE, value |-> v]
BadYamlText == [t |-> "yaml", malformed |-> TRUE, value |-> Null]

IsFence(chunk) == chunk.t \in {"fence_yaml", "fence"}

\* the two replace calls delete the fence markers
RECURSIVE RemoveFences(_)
RemoveFences(s) ==
    IF s = <<>> THEN <<>>
    ELSE IF IsFence(Head(s)) THEN RemoveFences(Tail(s))
         ELSE <<Head(s)>> \o RemoveFences(Tail(s))

RECURSIVE LStrip(_)
LStrip(s) ==
    IF s # <<>> /\ Head(s).t = "ws" THEN LStrip(Tail(s)) ELSE s

RECURSIVE RStrip(_)
RStrip(s) ==
    IF s # <<>> /\ s[Len(s)].t = "ws" THEN RStrip(SubSeq(s, 1, Len(s) - 1)) ELSE s

\* str.strip()
Strip(s) == RStrip(LStrip(s))

\* the cleaning of response.content: fences removed, then strip()
CleanYaml(content) == Strip(RemoveFences(content))

\* The outcome of an operation that may raise.
Ok(v) == [ok |-> TRUE, value |-> v, error |-> "none"]
Raise(e) == [ok |-> FALSE, value |-> Null, error |-> e]

\* yaml.safe_load on cleaned text: one well-formed document decodes to its
\* value; anything else the inputs below can produce is a YAMLError
SafeLoad(yaml_str) ==
    IF Len(yaml_str) = 1 /\ yaml_str[1].t = "yaml" /\ ~yaml_str[1].malformed
    THEN Ok(yaml_str[1].value)
    ELSE Raise("YAMLError")

\* The ways a document is framed in the text of a response.
Framings(doc) ==
    { <<doc>>, <<FenceYaml, Ws, doc, Ws, Fence>> }

\* Texts that hold no document at all.
BlankContents == { <<Ws>>, <<FenceYaml, Ws, Fence>> }

\* What self.llm.invoke does: raise, return nothing (None or empty content),
\* or return a message with content.
InvokeRaises == [kind |-> "raise"]
NoResponse == [kind |-> "none"]
Message(content) == [kind |-> "message", content |-> content]

----------------------------------------------------------------------------
(* Operations on decoded values that the handlers apply, with the          *)
(* exceptions Python raises for the wrong type.                            *)

\* key in v / key not in v
Contains(v, key) ==
    CASE IsMap(v) -> Ok(key \in DOMAIN v.map)
      [] IsStr(v) -> Ok(v.str = key)
      [] IsList(v) -> Ok(Str(key) \in {v.list[i] : i \in DOMAIN v.list})
      [] OTHER -> Raise("TypeError")

\* v[key]
Index(v, key) ==
    IF IsMap(v) /\ key \in DOMAIN v.map THEN Ok(v.map[key]) ELSE Raise("TypeError")

\* for x in v: a list yields its elements, a str or a dict yields strs
\* (one stands for them all), None and numbers are not iterable
Iterate(v) ==
    CASE IsList(v) -> Ok(v.list)
      [] IsStr(v) \/ IsMap(v) -> Ok(IF Truthy(v) THEN <<Str("k")>> ELSE <<>>)
      [] OTHER -> Raise("TypeError")

----------------------------------------------------------------------------
(* SlanderAnalyzer.analyze_multiple_texts                                  *)

\* SlanderAnalysisResult(**content_analysis): the three fields are required,
\* keys the class does not declare (content_index, language) are ignored
SlanderAnalysisResult(content_analysis) ==
    IF ~IsMap(content_analysis) THEN Raise("TypeError")
    ELSE LET d == content_analysis.map IN
         IF /\ "risk_score" \in DOMAIN d /\ IsNum(d.risk_score)
            /\ "context_analysis" \in DOMAIN d /\ IsStr(d.context_analysis)
            /\ "confidence_score" \in DOMAIN d /\ IsNum(d.confidence_score)
         THEN Ok([risk_score |-> d.risk_score.num,
                  context_analysis |-> d.context_analysis.str,
                  confidence_score |-> d.confidence_score.num])
         ELSE Raise("ValidationError")

\* the loop that appends SlanderAnalysisResult(**content_analysis) for each
\* entry, in the order the response lists them; the first failure raises
RECURSIVE ConvertEntries(_)
ConvertEntries(entries) ==
    IF entries = <<>> THEN Ok(<<>>)
    ELSE LET first == SlanderAnalysisResult(Head(entries)) IN
         IF ~first.ok THEN first
         ELSE LET rest == ConvertEntries(Tail(entries)) IN
              IF ~rest.ok THEN rest ELSE Ok(<<first.value>> \o rest.value)

\* the steps of the try block after the invocation has returned
BatchParse(response) ==
    IF response.kind = "none" \/ response.content = <<>>
    THEN Raise("EmptyResponse")
    ELSE LET yaml_str == CleanYaml(response.content) IN
    IF yaml_str = <<>> THEN Raise("EmptyYaml")
    ELSE LET loaded == SafeLoad(yaml_str) IN
    IF ~loaded.ok THEN loaded
    ELSE LET analysis_dict == loaded.value IN
    IF ~Truthy(analysis_dict) THEN Raise("EmptyDict")
    ELSE LET present == Contains(analysis_dict, "content_analyses") IN
    IF ~present.ok THEN present
    ELSE IF ~present.value THEN Raise("MissingKey")
    ELSE LET listed == Index(analysis_dict, "content_analyses") IN
    IF ~listed.ok THEN listed
    ELSE LET entries == Iterate(listed.value) IN
    IF ~entries.ok THEN entries
    ELSE ConvertEntries(entries.value)

\* the try block of one attempt: invoke, then parse
BatchTry(response) ==
    IF response.kind = "raise" THEN Raise("InvokeError") ELSE BatchParse(response)

\* the exceptions a handler for Exception catches: all of them
ExceptionKinds ==
    {"InvokeError", "EmptyResponse", "EmptyYaml", "YAMLError", "EmptyDict",
     "MissingKey", "TypeError", "AttributeError", "ValidationError"}

\* (variant: a handler for ValueError alone)
BatchCatchesValueErrorOnly(error) ==
    error \in {"EmptyResponse", "EmptyYaml", "EmptyDict", "MissingKey"}

BatchCatches(error) == error \in ExceptionKinds

\* the default results returned when every attempt has failed
DefaultResult ==
    [risk_score |-> 0,
     context_analysis |-> "Analysis failed after multiple attempts. Please try again.",
     confidence_score |-> 0]

BatchFallback(items) == [i \in 1..Len(items) |-> DefaultResult]

\* (variant: the loop bound off by one)
BatchRetriesOffByOne(n) == n < max_retries

\* whether the loop goes on after a failed attempt
BatchRetries(n) == n < max_retries - 1

(* Inputs *)

\* the scores a response may carry: the model is asked for floats between 0
\* and 1 and may answer anything; 0.5 and 1.5 stand for inside and outside
BatchScores == {5, 15}

Tags == 1..MaxItems

TaggedEntry(tag, r, c) ==
    Map([content_index |-> Num(tag), language |-> Str("ja"), risk_score |-> Num(r),
         context_analysis |-> Str("analysis"), confidence_score |-> Num(c)])

UntaggedEntry(r, c) ==
    Map([language |-> Str("ja"), risk_score |-> Num(r),
         context_analysis |-> Str("analysis"), confidence_score |-> Num(c)])

ValidEntries ==
    {TaggedEntry(t, r, c) : t \in Tags, r \in BatchScores, c \in BatchScores}
    \cup {UntaggedEntry(r, c) : r \in BatchScores, c \in BatchScores}

InvalidEntries ==
    { Map([content_index |-> Num(1), context_analysis |-> Str("analysis"),
           confidence_score |-> Num(5)]),
      Map([content_index |-> Num(1), risk_score |-> Num(5),
           confidence_score |-> Num(5)]),
      Map([content_index |-> Num(1), risk_score |-> Num(5),
           context_analysis |-> Str("analysis")]),
      Map([content_index |-> Num(1), risk_score |-> Str("high"),
           context_analysis |-> Str("analysis"), confidence_score |-> Num(5)]),
      Str("not a mapping") }

BatchEntries == ValidEntries \cup InvalidEntries

EntryLists == UNION {[1..k -> BatchEntries] : k \in 0..MaxEntries}

BatchDocs ==
    { BadYamlText,
      YamlText(Null),
      YamlText(Str("I cannot help with that")),
      YamlText(Num(1)),
      YamlText(Map([language |-> Str("ja")])),
      YamlText(Map([content_analyses |-> Null])) }
    \cup {YamlText(Map([content_analyses |-> List(es)])) : es \in EntryLists}

BatchResponses ==
    {InvokeRaises, NoResponse, Message(<<>>)}
    \cup {Message(c) : c \in BlankContents}
    \cup {Message(c) : c \in UNION {Framings(d) : d \in BatchDocs}}

ItemLists == {[i \in 1..n |-> [source |-> "Twitter", tweet_id |-> i]] : n \in 1..MaxItems}

NotCalled == [kind |-> "not_called"]

BatchIdle ==
    /\ texts = <<>>
    /\ attempt = 0
    /\ batch_pc = "idle"
    /\ batch_result = <<>>
    /\ batch_response = NotCalled
    /\ last_error = "none"
    /\ batch_calls = 0
    /\ batch_sleeps = 0

\* the state at the first pass of the loop
BatchInit ==
    /\ texts \in ItemLists
    /\ attempt = 0
    /\ batch_pc = "attempting"
    /\ batch_result = <<>>
    /\ batch_response = NotCalled
    /\ last_error = "none"
    /\ batch_calls = 0
    /\ batch_sleeps = 0

\* One pass of the loop of analyze_multiple_texts, given what the model
\* answers: the invocation, the sleep that follows it when it returns, the
\* parse, and the handler.
AttemptWith(response) ==
    /\ batch_calls' = batch_calls + 1
    /\ batch_sleeps' = IF response.kind = "raise" THEN batch_sleeps ELSE batch_sleeps + 1
    /\ LET outcome == BatchTry(response) IN
       IF outcome.ok
       THEN /\ batch_pc' = "returned"
            /\ batch_result' = outcome.value
            /\ batch_response' = response
            /\ UNCHANGED <<attempt, last_error>>
       ELSE IF ~BatchCatches(outcome.error)
       THEN /\ batch_pc' = "raised"
            /\ UNCHANGED <<attempt, last_error, batch_result, batch_response>>
       ELSE /\ last_error' = outcome.error
            /\ UNCHANGED batch_response
            /\ IF BatchRetries(attempt)
               THEN /\ attempt' = attempt + 1
                    /\ UNCHANGED <<batch_pc, batch_result>>
               ELSE /\ batch_pc' = "fallback"
                    /\ batch_result' = BatchFallback(texts)
                    /\ UNCHANGED attempt
    /\ UNCHANGED texts

AnalyzeAttempt ==
    /\ batch_pc = "attempting"
    /\ \E response \in BatchResponses : AttemptWith(response)

----------------------------------------------------------------------------
(* SlanderAnalyzer.calculate_overall_analysis                              *)

\* a quotient of two numbers, kept exact
Frac(n, d) == [num |-> n, den |-> d]

\* sum(r.confidence_score for r in results)
RECURSIVE SumConfidence(_)
SumConfidence(rs) ==
    IF rs = <<>> THEN 0 ELSE Head(rs).confidence_score + SumConfidence(Tail(rs))

\* sum(r.risk_score for r in results)
RECURSIVE SumRisk(_)
SumRisk(rs) ==
    IF rs = <<>> THEN 0 ELSE Head(rs).risk_score + SumRisk(Tail(rs))

\* sum(r.risk_score * r.confidence_score for r in results); a product of two
\* scores in tenths is in hundredths
RECURSIVE SumWeighted(_)
SumWeighted(rs) ==
    IF rs = <<>> THEN 0
    ELSE Head(rs).risk_score * Head(rs).confidence_score + SumWeighted(Tail(rs))

\* (variant: the confidence weights left out)
CombinedRiskUnweighted(rs) == Frac(SumRisk(rs), Len(rs))

\* combined_risk for a non-empty list, in tenths
CombinedRisk(rs) ==
    LET total_weight == SumConfidence(rs) IN
    IF total_weight = 0
    THEN Frac(SumRisk(rs), Len(rs))
    ELSE Frac(SumWeighted(rs), total_weight)

\* dict.get(key, default); other types have no get
Get(v, key, default) ==
    IF ~IsMap(v) THEN Raise("AttributeError")
    ELSE IF key \in DOMAIN v.map THEN Ok(v.map[key]) ELSE Ok(Str(default))

\* OverallAnalysis(...): both narratives must be strings
OverallAnalysis(combined_risk_score, pattern_analysis, cross_references) ==
    IF IsStr(pattern_analysis) /\ IsStr(cross_references)
    THEN Ok([combined_risk_score |-> combined_risk_score,
             pattern_analysis |-> pattern_analysis.str,
             cross_references |-> cross_references.str])
    ELSE Raise("ValidationError")

\* the steps of the try block after the invocation has returned
AggParse(response, combined_risk) ==
    IF response.kind = "none" \/ response.content = <<>>
    THEN Raise("EmptyResponse")
    ELSE LET yaml_str == CleanYaml(response.content) IN
    IF yaml_str = <<>> THEN Raise("EmptyYaml")
    ELSE LET loaded == SafeLoad(yaml_str) IN
    IF ~loaded.ok THEN loaded
    ELSE LET analysis_dict == loaded.value IN
    IF ~Truthy(analysis_dict) THEN Raise("EmptyDict")
    ELSE LET pattern == Get(analysis_dict, "pattern_analysis",
                            "No pattern analysis available.")
             cross == Get(analysis_dict, "cross_references",
                          "No cross-reference analysis available.")
         IN
    IF ~pattern.ok THEN pattern
    ELSE IF ~cross.ok THEN cross
    ELSE OverallAnalysis(combined_risk, pattern.value, cross.value)

AggTry(response, combined_risk) ==
    IF response.kind = "raise" THEN Raise("InvokeError")
    ELSE AggParse(response, combined_risk)

AggCatches(error) == error \in ExceptionKinds

\* the report for no content
EmptyReport ==
    [combined_risk_score |-> Frac(0, 1),
     pattern_analysis |-> "No content analyzed.",
     cross_references |-> "No content analyzed."]

\* the report of the except branch
ErrorReport(combined_risk) ==
    [combined_risk_score |-> combined_risk,
     pattern_analysis |-> "Error generating pattern analysis.",
     cross_references |-> "Error generating cross-reference analysis."]

NoReport ==
    [combined_risk_score |-> Frac(0, 1), pattern_analysis |-> "", cross_references |-> ""]

(* Inputs *)

\* the fields are plain floats, so a list built from a model response may
\* hold any number: -0.5, 0, 0.5 and 1.0 here
AggScores == {-5, 0, 5, 10}

Assessments ==
    [risk_score : AggScores, context_analysis : {"analysis"}, confidence_score : AggScores]

\* the assessments of the end-to-end scenario: risks 0.9, 0.4, 0.1 with
\* confidences 1.0, 0.5, 0.0
ScenarioResults ==
    << [risk_score |-> 9, context_analysis |-> "analysis", confidence_score |-> 10],
       [risk_score |-> 4, context_analysis |-> "analysis", confidence_score |-> 5],
       [risk_score |-> 1, context_analysis |-> "analysis", confidence_score |-> 0] >>

AssessmentLists ==
    UNION {[1..k -> Assessments] : k \in 0..MaxResults} \cup {ScenarioResults}

AggDocs ==
    { BadYamlText,
      YamlText(Null),
      YamlText(Str("I cannot help with that")),
      YamlText(List(<<Str("pattern_analysis")>>)),
      YamlText(Map([language |-> Str("ja")])),
      YamlText(Map([language |-> Str("ja"), pattern_analysis |-> Str("themes")])),
      YamlText(Map([language |-> Str("ja"), cross_references |-> Str("links")])),
      YamlText(Map([language |-> Str("ja"), pattern_analysis |-> Str("themes"),
                    cross_references |-> Str("links")])),
      YamlText(Map([language |-> Str("ja"), pattern_analysis |-> Null,
                    cross_references |-> Str("links")])) }

AggResponses ==
    {InvokeRaises, NoResponse, Message(<<>>)}
    \cup {Message(c) : c \in BlankContents}
    \cup {Message(c) : c \in UNION {Framings(d) : d \in AggDocs}}

AggIdle ==
    /\ results = <<>>
    /\ agg_pc = "idle"
    /\ overall = NoReport
    /\ agg_response = NotCalled
    /\ agg_calls = 0

AggInit ==
    /\ results \in AssessmentLists
    /\ agg_pc = "called"
    /\ overall = NoReport
    /\ agg_response = NotCalled
    /\ agg_calls = 0

\* (variant: no early return for the empty list, so the mean divides by
\* zero before the try block)
CombineWithoutEarlyReturn(response) ==
    /\ IF results = <<>>
       THEN /\ overall' = NoReport
            /\ agg_pc' = "raised"
            /\ UNCHANGED <<agg_response, agg_calls>>
       ELSE LET combined_risk == CombinedRisk(results)
                outcome == AggTry(response, combined_risk)
            IN /\ agg_response' = response
               /\ agg_calls' = agg_calls + 1
               /\ IF outcome.ok
                  THEN overall' = outcome.value /\ agg_pc' = "returned"
                  ELSE IF AggCatches(outcome.error)
                  THEN overall' = ErrorReport(combined_risk) /\ agg_pc' = "returned"
                  ELSE overall' = NoReport /\ agg_pc' = "raised"
    /\ UNCHANGED results

\* A call of calculate_overall_analysis, from entry to return, given what
\* the model answers if it is asked.
CombineWith(response) ==
    /\ IF results = <<>>
       THEN /\ overall' = EmptyReport
            /\ agg_pc' = "returned"
            /\ UNCHANGED <<agg_response, agg_calls>>
       ELSE LET combined_risk == CombinedRisk(results)
                outcome == AggTry(response, combined_risk)
            IN /\ agg_response' = response
               /\ agg_calls' = agg_calls + 1
               /\ IF outcome.ok
                  THEN overall' = outcome.value /\ agg_pc' = "returned"
                  ELSE IF AggCatches(outcome.error)
                  THEN overall' = ErrorReport(combined_risk) /\ agg_pc' = "returned"
                  ELSE overall' = NoReport /\ agg_pc' = "raised"
    /\ UNCHANGED results

CalculateOverallAnalysis ==
    /\ agg_pc = "called"
    /\ \E response \in AggResponses : CombineWith(response)

----------------------------------------------------------------------------
(* QueryGenerator.generate_queries                                         *)

\* max_retries of generate_queries
plan_max_retries == 3
\* the length of the default window, in days
DefaultWindowDays == 30
\* datetime.now(), as a day number
Today == 100

\* most queries a model response lists for one platform
MaxQueries == 2

\* strftime("%Y-%m-%d") of a day
Strftime(d) == IsoStr(d)

\* _get_default_dates
GetDefaultDates ==
    [start_date |-> Strftime(Today - DefaultWindowDays), end_date |-> Strftime(Today)]

\* d.setdefault(key, default): a key that is present keeps its value, None
\* included
SetDefault(d, key, default) ==
    IF key \in DOMAIN d THEN d
    ELSE [k \in DOMAIN d \cup {key} |-> IF k = key THEN default ELSE d[k]]

\* the loop that fills the default dates into the entries listed under
\* twitter; an entry that is no dict has no setdefault
RECURSIVE FillDefaultDates(_, _)
FillDefaultDates(queries, default_dates) ==
    IF queries = <<>> THEN Ok(<<>>)
    ELSE IF ~IsMap(Head(queries)) THEN Raise("AttributeError")
    ELSE LET filled ==
                 Map(SetDefault(SetDefault(Head(queries).map, "start_date",
                                           default_dates.start_date),
                                "end_date", default_dates.end_date))
             rest == FillDefaultDates(Tail(queries), default_dates)
         IN IF ~rest.ok THEN rest ELSE Ok(<<filled>> \o rest.value)

\* (variant: the section kept as given)
validate_section_kept(v) == v

\* TwitterSearchQuery.validate_section
validate_section(v) ==
    IF Truthy(v) /\ v \notin {Str("top"), Str("latest")} THEN Str("latest") ELSE v

\* TwitterSearchQuery.validate_language
validate_language(v) ==
    IF Truthy(v) /\ Len(v.str) # 2 THEN Str("ja") ELSE v

\* an Optional[str] field: None or a string; other types are rejected
OptionalStr(d, key) ==
    IF IsNull(d[key]) \/ IsStr(d[key]) THEN Ok(d[key]) ELSE Raise("ValidationError")

\* the section field: absent is None and no validator runs; a value given
\* is type-checked and then goes through validate_section
SectionField(d) ==
    IF "section" \notin DOMAIN d THEN Ok(Null)
    ELSE LET typed == OptionalStr(d, "section") IN
         IF ~typed.ok THEN typed ELSE Ok(validate_section(typed.value))

\* the language field, likewise with validate_language
LanguageField(d) ==
    IF "language" \notin DOMAIN d THEN Ok(Null)
    ELSE LET typed == OptionalStr(d, "language") IN
         IF ~typed.ok THEN typed ELSE Ok(validate_language(typed.value))

\* an Optional[datetime] field: None, a date, or a string that reads as one
OptionalDatetime(d, key) ==
    IF key \notin DOMAIN d THEN Ok(Null)
    ELSE IF IsNull(d[key]) \/ IsDate(d[key]) THEN Ok(d[key])
    ELSE IF IsIso(d[key]) THEN Ok(Date(d[key].iso))
    ELSE Raise("ValidationError")

\* a required str field
RequiredStr(d, key) ==
    IF key \in DOMAIN d /\ IsStr(d[key]) THEN Ok(d[key]) ELSE Raise("ValidationError")

\* TwitterSearchQuery(**entry)
TwitterSearchQuery(entry) ==
    IF ~IsMap(entry) THEN Raise("ValidationError")
    ELSE LET d == entry.map
             query == RequiredStr(d, "query")
             description == RequiredStr(d, "description")
             section == SectionField(d)
             start_date == OptionalDatetime(d, "start_date")
             end_date == OptionalDatetime(d, "end_date")
             language == LanguageField(d)
         IN IF /\ query.ok /\ description.ok /\ section.ok
               /\ start_date.ok /\ end_date.ok /\ language.ok
            THEN Ok([query |-> query.value, description |-> description.value,
                     section |-> section.value, start_date |-> start_date.value,
                     end_date |-> end_date.value, language |-> language.value])
            ELSE Raise("ValidationError")

\* YouTubeSearchQuery(**entry)
YouTubeSearchQuery(entry) ==
    IF ~IsMap(entry) THEN Raise("ValidationError")
    ELSE LET d == entry.map
             query == RequiredStr(d, "query")
             description == RequiredStr(d, "description")
         IN IF query.ok /\ description.ok
            THEN Ok([query |-> query.value, description |-> description.value])
            ELSE Raise("ValidationError")

\* the List[TwitterSearchQuery] field: every element is validated
RECURSIVE TwitterList(_)
TwitterList(entries) ==
    IF entries = <<>> THEN Ok(<<>>)
    ELSE LET first == TwitterSearchQuery(Head(entries))
             rest == TwitterList(Tail(entries))
         IN IF ~first.ok THEN first
            ELSE IF ~rest.ok THEN rest
            ELSE Ok(<<first.value>> \o rest.value)

\* the List[YouTubeSearchQuery] field
RECURSIVE YouTubeList(_)
YouTubeList(entries) ==
    IF entries = <<>> THEN Ok(<<>>)
    ELSE LET first == YouTubeSearchQuery(Head(entries))
             rest == YouTubeList(Tail(entries))
         IN IF ~first.ok THEN first
            ELSE IF ~rest.ok THEN rest
            ELSE Ok(<<first.value>> \o rest.value)

\* SearchQueries(**queries_dict): both lists are required
SearchQueries(twitter, youtube) ==
    IF ~IsList(twitter) \/ ~IsList(youtube) THEN Raise("ValidationError")
    ELSE LET t == TwitterList(twitter.list)
             y == YouTubeList(youtube.list)
         IN IF ~t.ok THEN t
            ELSE IF ~y.ok THEN y
            ELSE Ok([twitter |-> t.value, youtube |-> y.value])

\* the steps of the try block after the invocation has returned
PlanParse(response, default_dates) ==
    IF response.kind = "none" \/ response.content = <<>>
    THEN Raise("EmptyResponse")
    ELSE LET yaml_str == CleanYaml(response.content) IN
    IF yaml_str = <<>> THEN Raise("EmptyYaml")
    ELSE LET loaded == SafeLoad(yaml_str) IN
    IF ~loaded.ok THEN loaded
    ELSE LET queries_dict == loaded.value IN
    IF ~Truthy(queries_dict) THEN Raise("EmptyDict")
    ELSE LET has_twitter == Contains(queries_dict, "twitter") IN
    IF ~has_twitter.ok THEN has_twitter
    ELSE IF ~has_twitter.value THEN Raise("MissingKey")
    ELSE LET has_youtube == Contains(queries_dict, "youtube") IN
    IF ~has_youtube.ok THEN has_youtube
    ELSE IF ~has_youtube.value THEN Raise("MissingKey")
    ELSE LET twitter == Get(queries_dict, "twitter", "") IN
    IF ~twitter.ok THEN twitter
    ELSE LET queries == Iterate(twitter.value) IN
    IF ~queries.ok THEN queries
    ELSE LET filled == FillDefaultDates(queries.value, default_dates) IN
    IF ~filled.ok THEN filled
    ELSE SearchQueries(IF IsList(twitter.value) THEN List(filled.value) ELSE twitter.value,
                       queries_dict.map.youtube)

PlanTry(response, default_dates) ==
    IF response.kind = "raise" THEN Raise("InvokeError")
    ELSE PlanParse(response, default_dates)

\* (variant: a handler for ValueError alone)
PlanCatchesValueErrorOnly(error) ==
    error \in {"EmptyResponse", "EmptyYaml", "EmptyDict", "MissingKey"}

PlanCatches(error) == error \in ExceptionKinds

\* (variant: a fallback plan without the youtube list)
EmptyPlanTwitterOnly == [twitter |-> <<>>]

\* SearchQueries(twitter=[], youtube=[])
EmptyPlan == [twitter |-> <<>>, youtube |-> <<>>]

\* whether the loop goes on after a failed attempt
PlanRetries(n) == n < plan_max_retries - 1

(* Inputs *)

TwitterEntries ==
    { Map([query |-> Str("q1"), description |-> Str("d"), section |-> Str("top"),
           start_date |-> Date(Today - 7), end_date |-> Date(Today),
           language |-> Str("ja")]),
      Map([query |-> Str("q2"), description |-> Str("d"), section |-> Str("trending"),
           language |-> Str("jpn")]),
      Map([query |-> Str("q3"), description |-> Str("d"), section |-> Str("latest"),
           start_date |-> Date(Today), end_date |-> Date(Today - 7),
           language |-> Str("en")]),
      Map([query |-> Str("q4"), description |-> Str("d"), start_date |-> Null,
           end_date |-> IsoStr(Today), language |-> Str("")]),
      Map([query |-> Str("q5"), section |-> Str("top")]),
      Map([query |-> Str("q6"), description |-> Str("d"),
           start_date |-> Str("last week")]),
      Str("not a mapping") }

YouTubeEntries ==
    { Map([query |-> Str("v1"), description |-> Str("d")]),
      Map([query |-> Str("v2")]) }

TwitterLists == UNION {[1..k -> TwitterEntries] : k \in 0..MaxQueries}

YouTubeLists == UNION {[1..k -> YouTubeEntries] : k \in 0..MaxQueries}

PlanDocs ==
    { BadYamlText,
      YamlText(Null),
      YamlText(Str("I cannot help with that")),
      YamlText(Num(1)),
      YamlText(List(<<Str("twitter"), Str("youtube")>>)),
      YamlText(Map([twitter |-> List(<<>>)])),
      YamlText(Map([youtube |-> List(<<>>)])),
      YamlText(Map([twitter |-> Null, youtube |-> List(<<>>)])),
      YamlText(Map([twitter |-> List(<<>>), youtube |-> Null])) }
    \cup {YamlText(Map([twitter |-> List(t), youtube |-> List(y)])) :
            t \in TwitterLists, y \in YouTubeLists}

PlanResponses ==
    {InvokeRaises, NoResponse, Message(<<>>)}
    \cup {Message(c) : c \in BlankContents}
    \cup {Message(c) : c \in UNION {Framings(d) : d \in PlanDocs}}

PlanIdle ==
    /\ plan_attempt = 0
    /\ plan_pc = "idle"
    /\ plan = EmptyPlan
    /\ plan_response = NotCalled
    /\ plan_error = "none"
    /\ plan_calls = 0
    /\ plan_sleeps = 0

\* the state at the first pass of the loop
PlanInit ==
    /\ plan_attempt = 0
    /\ plan_pc = "attempting"
    /\ plan = EmptyPlan
    /\ plan_response = NotCalled
    /\ plan_error = "none"
    /\ plan_calls = 0
    /\ plan_sleeps = 0

\* One pass of the loop of generate_queries, given what the model answers.
PlanAttemptWith(response) ==
    /\ plan_calls' = plan_calls + 1
    /\ plan_sleeps' = IF response.kind = "raise" THEN plan_sleeps ELSE plan_sleeps + 1
    /\ LET outcome == PlanTry(response, GetDefaultDates) IN
       IF outcome.ok
       THEN /\ plan_pc' = "returned"
            /\ plan' = outcome.value
            /\ plan_response' = response
            /\ UNCHANGED <<plan_attempt, plan_error>>
       ELSE IF ~PlanCatches(outcome.error)
       THEN /\ plan_pc' = "raised"
            /\ UNCHANGED <<plan_attempt, plan_error, plan, plan_response>>
       ELSE /\ plan_error' = outcome.error
            /\ UNCHANGED plan_response
            /\ IF PlanRetries(plan_attempt)
               THEN /\ plan_attempt' = plan_attempt + 1
                    /\ UNCHANGED <<plan_pc, plan>>
               ELSE /\ plan_pc' = "fallback"
                    /\ plan' = EmptyPlan
                    /\ UNCHANGED plan_attempt

GenerateQueriesAttempt ==
    /\ plan_pc = "attempting"
    /\ \E response \in PlanResponses : PlanAttemptWith(response)

----------------------------------------------------------------------------
(* The parse steps of the two retry loops, and the construction of a       *)
(* TwitterSearchQuery, each applied once to one input.                     *)

\* the mark of a key the entry does not have
Absent == [absent |-> TRUE]

\* the dict with the keys of f that are not marked absent
WithoutAbsent(f) == [k \in {key \in DOMAIN f : f[key] # Absent} |-> f[k]]

(* Inputs *)

\* section values a model may write: none, null, empty, the two sections,
\* other words, and a number
Sections ==
    {Absent, Null, Str(""), Str("top"), Str("latest"), Str("trending"), Str("Top"),
     Num(1)}

\* language values: none, null, empty, 2-letter codes, and other lengths
Languages ==
    {Absent, Null, Str(""), Str("ja"), Str("en"), Str("jpn"), Str("j")}

StartDates ==
    {Absent, Null, Date(Today - 7), Date(Today), IsoStr(Today - 7), Str("last week")}

EndDates == {Absent, Date(Today - 7), Date(Today)}

QueryEntries ==
    {Map(WithoutAbsent([query |-> Str("q"), description |-> Str("d"), section |-> s,
                        start_date |-> a, end_date |-> b, language |-> l])) :
        s \in Sections, l \in Languages, a \in StartDates, b \in EndDates}

\* an answer whose content_analyses is an empty mapping
EmptyMappingDoc == YamlText(Map([content_analyses |-> Map(<<>>)]))

UnitInputs ==
    {[kind |-> "batch", response |-> r] :
        r \in (BatchResponses \ {InvokeRaises})
              \cup {Message(c) : c \in Framings(EmptyMappingDoc)}}
    \cup {[kind |-> "plan", response |-> r] : r \in PlanResponses \ {InvokeRaises}}
    \cup {[kind |-> "query", entry |-> e] : e \in QueryEntries}

NoOutcome == [ok |-> FALSE, value |-> Null, error |-> "not_run"]

UnitIdle ==
    /\ unit_pc = "idle"
    /\ unit_input = [kind |-> "none"]
    /\ unit_outcome = NoOutcome

UnitInit ==
    /\ unit_pc = "ready"
    /\ unit_input \in UnitInputs
    /\ unit_outcome = NoOutcome

\* the parse steps of analyze_multiple_texts on one response
ParseBatchResponse ==
    /\ unit_pc = "ready"
    /\ unit_input.kind = "batch"
    /\ unit_outcome' = BatchParse(unit_input.response)
    /\ unit_pc' = "done"
    /\ UNCHANGED unit_input

\* the parse steps of generate_queries on one response
ParsePlanResponse ==
    /\ unit_pc = "ready"
    /\ unit_input.kind = "plan"
    /\ unit_outcome' = PlanParse(unit_input.response, GetDefaultDates)
    /\ unit_pc' = "done"
    /\ UNCHANGED unit_input

\* TwitterSearchQuery(**entry) on one entry
ConstructQuery ==
    /\ unit_pc = "ready"
    /\ unit_input.kind = "query"
    /\ unit_outcome' = TwitterSearchQuery(unit_input.entry)
    /\ unit_pc' = "done"
    /\ UNCHANGED unit_input

----------------------------------------------------------------------------
(* TwitterTool.search_tweets                                               *)

\* most posts the API returns in one response
MaxPosts == 2

\* dict.get(key, default) with any default; other types have no get
GetValue(v, key, default) ==
    IF ~IsMap(v) THEN Raise("AttributeError")
    ELSE IF key \in DOMAIN v.map THEN Ok(v.map[key]) ELSE Ok(default)

\* TwitterSearchParams.validate_section
TwitterSearchParams_validate_section(v) ==
    IF Truthy(v) /\ v \notin {Str("top"), Str("latest")}
    THEN Raise("ValidationError")
    ELSE Ok(v)

\* TwitterSearchParams.validate_language
TwitterSearchParams_validate_language(v) ==
    IF Truthy(v) /\ Len(v.str) # 2 THEN Raise("ValidationError") ELSE Ok(v)

\* an Optional[int] field with ge=0
OptionalNonNegative(v) ==
    IF IsNull(v) \/ (IsNum(v) /\ v.num >= 0) THEN Ok(v) ELSE Raise("ValidationError")

\* TwitterSearchParams(query=..., ..., limit=5, ...): the fields are
\* validated; limit is the constant 5 and continuation_token is passed on
TwitterSearchParams(args) ==
    LET section == TwitterSearchParams_validate_section(args.section)
        language == TwitterSearchParams_validate_language(args.language)
        min_retweets == OptionalNonNegative(args.min_retweets)
        min_likes == OptionalNonNegative(args.min_likes)
        min_replies == OptionalNonNegative(args.min_replies)
    IN IF /\ section.ok /\ language.ok
          /\ min_retweets.ok /\ min_likes.ok /\ min_replies.ok
       THEN Ok(args)
       ELSE Raise("ValidationError")

\* datetime.strptime(s, "%Y-%m-%d")
Strptime(v) == IF IsIso(v) THEN Ok(Date(v.iso)) ELSE Raise("ValueError")

\* a string is true unless it is empty; None is false
Given(v) == ~IsNull(v) /\ v # Str("")

\* TwitterSearchParams.validate_dates
validate_dates(params) ==
    IF Given(params.start_date) /\ ~Strptime(params.start_date).ok
    THEN Raise("ValueError")
    ELSE IF Given(params.end_date) /\ ~Strptime(params.end_date).ok
    THEN Raise("ValueError")
    ELSE IF /\ Given(params.start_date) /\ Given(params.end_date)
            /\ Strptime(params.start_date).value.date > Strptime(params.end_date).value.date
    THEN Raise("ValueError")
    ELSE Ok(params)

\* a field of Tweet or TwitterUser that must be a str / an int
StrField(v) == IF IsStr(v) THEN Ok(v) ELSE Raise("ValidationError")
IntField(v) == IF IsNum(v) THEN Ok(v) ELSE Raise("ValidationError")

\* _process_tweet_data: the fields are read with get and its defaults, then
\* TwitterUser and Tweet validate them (the fields kept here: the user's
\* username, tweet_id, text, favorite_count)
ProcessTweetData(tweet_data) ==
    LET user_data == GetValue(tweet_data, "user", Map(<<>>)) IN
    IF ~user_data.ok THEN user_data
    ELSE LET username == GetValue(user_data.value, "username", Str("")) IN
    IF ~username.ok THEN username
    ELSE IF ~StrField(username.value).ok THEN Raise("ValidationError")
    ELSE LET tweet_id == StrField(GetValue(tweet_data, "tweet_id", Str("")).value)
             text == StrField(GetValue(tweet_data, "text", Str("")).value)
             favorite_count ==
                 IntField(GetValue(tweet_data, "favorite_count", Num(0)).value)
         IN IF tweet_id.ok /\ text.ok /\ favorite_count.ok
            THEN Ok([tweet_id |-> tweet_id.value.str, text |-> text.value.str,
                     username |-> username.value.str,
                     favorite_count |-> favorite_count.value.num])
            ELSE Raise("ValidationError")

\* the loop over data.get("results", []): a post whose processing raises is
\* printed and skipped
RECURSIVE ProcessResults(_)
ProcessResults(posts) ==
    IF posts = <<>> THEN <<>>
    ELSE LET tweet == ProcessTweetData(Head(posts)) IN
         IF tweet.ok THEN <<tweet.value>> \o ProcessResults(Tail(posts))
         ELSE ProcessResults(Tail(posts))

\* what the try block does once the request has been answered
HandleReply(reply) ==
    IF reply.kind = "transport_error" THEN Raise("RequestException")
    ELSE IF reply.kind = "status_error" THEN Raise("HTTPError")
    ELSE LET listed == GetValue(reply.data, "results", List(<<>>)) IN
    IF ~listed.ok THEN listed
    ELSE LET posts == Iterate(listed.value) IN
    IF ~posts.ok THEN posts
    ELSE Ok(ProcessResults(posts.value))

(* Inputs *)

SearchSections == {Null, Str(""), Str("top"), Str("trending")}
SearchLanguages == {Null, Str(""), Str("ja"), Str("jpn")}
SearchStartDates == {Null, Str(""), IsoStr(Today - 7), IsoStr(Today), Str("last week")}
SearchEndDates == {Null, IsoStr(Today - 7), Str("05/01/2024")}

\* the arguments of a call; the thresholds default to 1, 1 and 0
SearchArgs ==
    [query : {Str("q")}, section : SearchSections, language : SearchLanguages,
     min_retweets : {Num(1), Num(-1)}, min_likes : {Num(1)},
     min_replies : {Num(0), Num(-1), Null},
     start_date : SearchStartDates, end_date : SearchEndDates]

\* posts of an API response: complete, with fields left out, with a count
\* that is null, with a user that is null, and one that is no object
Posts ==
    { Map([tweet_id |-> Str("1"), text |-> Str("t"), favorite_count |-> Num(3),
           user |-> Map([username |-> Str("u")])]),
      Map([tweet_id |-> Str("2")]),
      Map([tweet_id |-> Str("3"), text |-> Str("t"), favorite_count |-> Null,
           user |-> Map([username |-> Str("u")])]),
      Map([tweet_id |-> Str("4"), text |-> Str("t"), user |-> Null]),
      Null }

PostLists == UNION {[1..k -> Posts] : k \in 0..MaxPosts}

TransportError == [kind |-> "transport_error"]
StatusError == [kind |-> "status_error"]
Body(data) == [kind |-> "body", data |-> data]

\* what requests.get and raise_for_status can produce
ApiReplies ==
    {TransportError, StatusError,
     Body(Map(<<>>)), Body(Map([results |-> Null])), Body(List(<<>>))}
    \cup {Body(Map([results |-> List(posts)])) : posts \in PostLists}

SearchIdle ==
    /\ search_pc = "idle"
    /\ search_args = [query |-> Str("")]
    /\ search_reply = NotCalled
    /\ search_requests = 0
    /\ search_result = <<>>
    /\ search_error = "none"

SearchInit ==
    /\ search_pc = "called"
    /\ search_args \in SearchArgs
    /\ search_reply = NotCalled
    /\ search_requests = 0
    /\ search_result = <<>>
    /\ search_error = "none"

\* A call of search_tweets, from entry to return or raise, given what the
\* API answers if it is asked.  Both handlers re-raise.
SearchWith(reply) ==
    LET search_params == TwitterSearchParams(search_args) IN
    /\ IF ~search_params.ok
       THEN /\ search_pc' = "raised"
            /\ search_error' = search_params.error
            /\ UNCHANGED <<search_reply, search_requests, search_result>>
       ELSE IF ~validate_dates(search_params.value).ok
       THEN /\ search_pc' = "raised"
            /\ search_error' = validate_dates(search_params.value).error
            /\ UNCHANGED <<search_reply, search_requests, search_result>>
       ELSE LET outcome == HandleReply(reply) IN
            /\ search_requests' = search_requests + 1
            /\ search_reply' = reply
            /\ IF outcome.ok
               THEN /\ search_pc' = "returned"
                    /\ search_result' = outcome.value
                    /\ UNCHANGED search_error
               ELSE /\ search_pc' = "raised"
                    /\ search_error' = outcome.error
                    /\ UNCHANGED search_result
    /\ UNCHANGED search_args

SearchTweets ==
    /\ search_pc = "called"
    /\ \E reply \in ApiReplies : SearchWith(reply)

----------------------------------------------------------------------------
(* main.py: the run started by the Start Analysis button                   *)
(* The planner, the search and the two analysis calls are taken by what    *)
(* they return; a run is cut at each of these calls.                       *)

\* most runs of one session
MaxRuns == 3

\* the model answers behind the plans of a run: video queries only, one
\* Twitter query, and two Twitter queries with a video query
RunPlanDocs ==
    LET q1 == Map([query |-> Str("q1"), description |-> Str("d"),
                   section |-> Str("top"), start_date |-> Date(Today - 7),
                   end_date |-> Date(Today), language |-> Str("ja")])
        q2 == Map([query |-> Str("q2"), description |-> Str("d"),
                   section |-> Str("trending"), language |-> Str("jpn")])
        v1 == Map([query |-> Str("v1"), description |-> Str("d")])
    IN { YamlText(Map([twitter |-> List(<<>>), youtube |-> List(<<v1>>)])),
         YamlText(Map([twitter |-> List(<<q1>>), youtube |-> List(<<>>)])),
         YamlText(Map([twitter |-> List(<<q1, q2>>), youtube |-> List(<<v1>>)])) }

\* what generate_queries returns: the plan of an answer, or the empty plan
RunPlans ==
    {EmptyPlan}
    \cup {PlanParse(Message(<<doc>>), GetDefaultDates).value : doc \in RunPlanDocs}

\* what search_tweets(query=...) does: raise, or return the Tweets of the
\* posts that could be processed (listed, the outcomes being of two kinds)
SearchOutcomes ==
    <<Raise("RequestException"),
      Ok(ProcessResults(<<>>)),
      Ok(ProcessResults(<<Map([tweet_id |-> Str("1"), text |-> Str("t"),
                               favorite_count |-> Num(3),
                               user |-> Map([username |-> Str("u")])])>>))>>

\* the dict appended to st.session_state.search_results for a Tweet
ContentItem(result) ==
    [source |-> "Twitter", author |-> result.username, text |-> result.text,
     engagement |-> result.favorite_count, tweet_id |-> result.tweet_id]

\* what analyze_multiple_texts returns for the items: the fallback list, or
\* the assessments of the entries an answer lists
RunAnalyses(items) ==
    {BatchFallback(items)}
    \cup {ConvertEntries(entries).value :
            entries \in {<<>>, <<TaggedEntry(1, 5, 5)>>}}

\* what calculate_overall_analysis returns for the assessments
RunReports(analyses) ==
    IF analyses = <<>> THEN {EmptyReport}
    ELSE { ErrorReport(CombinedRisk(analyses)),
           OverallAnalysis(CombinedRisk(analyses), Str("themes"), Str("links")).value }

\* (variant: the results of the earlier run are kept)
KeptResults(previous) == previous

\* st.session_state.search_results = []
ClearedResults(previous) == <<>>

\* (variant: a failed search ends the run)
OnSearchErrorAborts(next_pc) == "idle"

\* the handler of the search loop reports the error; the loop goes on
OnSearchError(next_pc) == next_pc

\* (variant: the analysis starts whatever was found)
ResultsGateOpen(search_results) == "scoring"

\* if st.session_state.search_results: the analysis starts, else a warning
ResultsGate(search_results) ==
    IF search_results # <<>> THEN "scoring" ELSE "idle"

\* an entry of the log of a run
Called(name, arg) == [call |-> name, arg |-> arg]
Reported(kind) == [call |-> kind, arg |-> Null]

\* the session before the first run, no run started
RunIdle ==
    /\ run_pc = "idle"
    /\ run_count = 0
    /\ run_plan = EmptyPlan
    /\ run_index = 0
    /\ run_analyses = <<>>
    /\ session = [search_requests |-> EmptyPlan, search_results |-> <<>>,
                  all_results |-> <<>>, overall_analysis |-> NoReport]
    /\ run_log = <<>>

\* The button is pressed: without input a warning; else generate_queries,
\* the warning for a plan with no query, or the reset of search_results and
\* the entry of the Twitter search loop (the YouTube loop is commented out).
\* generated is the search_requests that generate_queries returned.
StartAnalysis ==
    /\ run_pc = "idle"
    /\ run_count < MaxRuns
    /\ \E natural_language_input \in {"", "topic"}, generated \in RunPlans :
         /\ run_count' = run_count + 1
         /\ run_analyses' = <<>>
         /\ IF natural_language_input = ""
            THEN /\ run_log' = <<Reported("st.warning")>>
                 /\ run_plan' = EmptyPlan
                 /\ run_index' = 0
                 /\ UNCHANGED <<run_pc, session>>
            ELSE IF generated.twitter = <<>> /\ generated.youtube = <<>>
            THEN /\ run_log' = <<Called("generate_queries", Str(natural_language_input)),
                                 Reported("st.warning")>>
                 /\ run_plan' = generated
                 /\ run_index' = 0
                 /\ UNCHANGED <<run_pc, session>>
            ELSE LET search_results == ClearedResults(session.search_results) IN
                 /\ session' = [session EXCEPT !.search_requests = generated,
                                               !.search_results = search_results]
                 /\ run_plan' = generated
                 /\ run_index' = 1
                 /\ run_pc' = IF generated.twitter # <<>> THEN "searching"
                              ELSE ResultsGate(search_results)
                 /\ run_log' = <<Called("generate_queries", Str(natural_language_input))>>
                        \o (IF generated.twitter = <<>>
                               /\ ResultsGate(search_results) = "idle"
                            THEN <<Reported("st.warning")>> ELSE <<>>)

\* One pass of the Twitter search loop: search_tweets with the query text
\* alone, the items appended, an empty result and a failure reported;
\* after the last query the gate of the analysis, with its warning when
\* there is nothing to analyze.
SearchNextQuery ==
    /\ run_pc = "searching"
    /\ \E k \in DOMAIN SearchOutcomes :
         LET outcome == SearchOutcomes[k]
             query == run_plan.twitter[run_index]
             found == IF outcome.ok
                      THEN [i \in 1..Len(outcome.value) |-> ContentItem(outcome.value[i])]
                      ELSE <<>>
             search_results == session.search_results \o found
             next_pc == IF run_index < Len(run_plan.twitter) THEN "searching"
                        ELSE ResultsGate(search_results)
         IN /\ session' = [session EXCEPT !.search_results = search_results]
            /\ run_index' = run_index + 1
            /\ run_pc' = IF outcome.ok THEN next_pc ELSE OnSearchError(next_pc)
            /\ run_log' = run_log
                   \o <<Called("search_tweets",
                               [kwargs |-> [query |-> query.query], outcome |-> outcome])>>
                   \o (IF ~outcome.ok THEN <<Reported("st.error")>>
                       ELSE IF outcome.value = <<>> THEN <<Reported("st.info")>>
                       ELSE <<>>)
                   \o (IF run_index = Len(run_plan.twitter)
                          /\ ResultsGate(search_results) = "idle"
                       THEN <<Reported("st.warning")>> ELSE <<>>)
    /\ UNCHANGED <<run_count, run_plan, run_analyses>>

\* analyze_multiple_texts on the search results of the session
Score ==
    /\ run_pc = "scoring"
    /\ \E analyses \in RunAnalyses(session.search_results) :
         /\ run_analyses' = analyses
         /\ run_log' = run_log \o <<Called("analyze_multiple_texts", session.search_results)>>
    /\ run_pc' = "aggregating"
    /\ UNCHANGED <<run_count, run_plan, run_index, session>>

\* calculate_overall_analysis on the analyses; the results zipped with
\* their analyses and the overall analysis are stored in the session
Aggregate ==
    /\ run_pc = "aggregating"
    /\ \E overall_analysis \in RunReports(run_analyses) :
         LET n == IF Len(run_analyses) < Len(session.search_results)
                  THEN Len(run_analyses) ELSE Len(session.search_results)
         IN session' = [session EXCEPT
                !.all_results = [i \in 1..n |-> [result |-> session.search_results[i],
                                                 analysis |-> run_analyses[i]]],
                !.overall_analysis = overall_analysis]
    /\ run_log' = run_log \o <<Called("calculate_overall_analysis", run_analyses)>>
    /\ run_pc' = "idle"
    /\ UNCHANGED <<run_count, run_plan, run_index, run_analyses>>

----------------------------------------------------------------------------
(* Specifications *)

\* analyze_multiple_texts alone, for every item list and every sequence of
\* model answers
InitBatch == BatchInit /\ AggIdle /\ PlanIdle /\ UnitIdle /\ SearchIdle /\ RunIdle
NextBatch ==
    AnalyzeAttempt /\ UNCHANGED <<agg_vars, plan_vars, unit_vars, search_vars, run_vars>>
SpecBatch == InitBatch /\ [][NextBatch]_vars

\* calculate_overall_analysis alone, for every assessment list and every
\* model answer
InitAgg == AggInit /\ BatchIdle /\ PlanIdle /\ UnitIdle /\ SearchIdle /\ RunIdle
NextAgg ==
    /\ CalculateOverallAnalysis
    /\ UNCHANGED <<batch_vars, plan_vars, unit_vars, search_vars, run_vars>>
SpecAgg == InitAgg /\ [][NextAgg]_vars

\* generate_queries alone, for every sequence of model answers
InitPlan == PlanInit /\ BatchIdle /\ AggIdle /\ UnitIdle /\ SearchIdle /\ RunIdle
NextPlan ==
    /\ GenerateQueriesAttempt
    /\ UNCHANGED <<batch_vars, agg_vars, unit_vars, search_vars, run_vars>>
SpecPlan == InitPlan /\ [][NextPlan]_vars

\* one parse step or one query construction, for every input
InitUnits == UnitInit /\ BatchIdle /\ AggIdle /\ PlanIdle /\ SearchIdle /\ RunIdle
NextUnits ==
    /\ \/ ParseBatchResponse
       \/ ParsePlanResponse
       \/ ConstructQuery
    /\ UNCHANGED <<batch_vars, agg_vars, plan_vars, search_vars, run_vars>>
SpecUnits == InitUnits /\ [][NextUnits]_vars

\* search_tweets alone, for every argument list and every answer of the API
InitSearch == SearchInit /\ BatchIdle /\ AggIdle /\ PlanIdle /\ UnitIdle /\ RunIdle
NextSearch ==
    SearchTweets /\ UNCHANGED <<batch_vars, agg_vars, plan_vars, unit_vars, run_vars>>
SpecSearch == InitSearch /\ [][NextSearch]_vars

\* the runs of main.py, for every plan, every search outcome and every
\* scoring outcome of each run
InitRun == RunIdle /\ BatchIdle /\ AggIdle /\ PlanIdle /\ UnitIdle /\ SearchIdle
NextRun ==
    /\ \/ StartAnalysis
       \/ SearchNextQuery
       \/ Score
       \/ Aggregate
    /\ UNCHANGED <<batch_vars, agg_vars, plan_vars, unit_vars, search_vars>>
SpecRun == InitRun /\ [][NextRun]_vars

----------------------------------------------------------------------------
(* Notions the properties are stated with *)

\* the batch call has returned a list
BatchDone == batch_pc \in {"returned", "fallback"}

\* the entries a response lists under content_analyses
ListedEntries(response) ==
    SafeLoad(CleanYaml(response.content)).value.map.content_analyses.list

\* the content_index tag of a listed entry, 0 when it has none
TagOf(entry) ==
    IF IsMap(entry) /\ "content_index" \in DOMAIN entry.map /\ IsNum(entry.map.content_index)
    THEN entry.map.content_index.num
    ELSE 0

\* f[1] + ... + f[n]
RECURSIVE Sigma(_, _)
Sigma(f, n) == IF n = 0 THEN 0 ELSE f[n] + Sigma(f, n - 1)

\* k <= f and f <= k for a fraction f and an integer k
FracGeq(f, k) ==
    \/ f.den > 0 /\ f.num >= k * f.den
    \/ f.den < 0 /\ f.num <= k * f.den
FracLeq(f, k) ==
    \/ f.den > 0 /\ f.num <= k * f.den
    \/ f.den < 0 /\ f.num >= k * f.den

\* a score within the 0-1 scale
InScale(x) == 0 <= x /\ x <= One

----------------------------------------------------------------------------
(* Properties *)

\* C1: whenever analyze_multiple_texts returns, on the success path or after
\* all retries are exhausted, the returned list is as long as the item list.
C1_LengthMatchesItems ==
    BatchDone => Len(batch_result) = Len(texts)

\* C2: the assessment returned at position i is the one the model tagged
\* with index i: a response is accepted only if its content_index tags are
\* exactly 1..len(items), each once, and the results are in tag order.
C2_AlignedByIndexTag ==
    batch_pc = "returned" =>
        LET entries == ListedEntries(batch_response) IN
        \A i \in DOMAIN batch_result :
            /\ i \in 1..Len(texts)
            /\ Cardinality({j \in DOMAIN entries : TagOf(entries[j]) = i}) = 1
            /\ \E j \in DOMAIN entries :
                 /\ TagOf(entries[j]) = i
                 /\ batch_result[i] = SlanderAnalysisResult(entries[j]).value

\* C3: the call never raises; when all 3 attempts have failed it has
\* returned exactly len(items) assessments, each with risk_score 0,
\* confidence_score 0 and the fixed placeholder context_analysis.
C3_FallbackAfterAllAttemptsFail ==
    /\ batch_pc # "raised"
    /\ (batch_calls = 3 /\ batch_pc # "returned") => batch_pc = "fallback"
    /\ batch_pc = "fallback" =>
         /\ Len(batch_result) = Len(texts)
         /\ \A i \in 1..Len(batch_result) :
              /\ batch_result[i].risk_score = 0
              /\ batch_result[i].confidence_score = 0
              /\ batch_result[i].context_analysis =
                   "Analysis failed after multiple attempts. Please try again."

C3_Witness ==
    /\ batch_pc = "fallback"
    /\ Len(texts) = 2
    /\ last_error = "ValidationError"

\* C4: the call is a bounded-attempt state machine: while attempting, every
\* pass makes one model call and either returns (no further call), or fails
\* and moves to the next attempt, or fails as the third attempt and
\* produces the fallback; so at most 3 calls are made, a return after k
\* calls follows k-1 failures, and the fallback follows exactly 3 failures.
C4_AttemptCounts ==
    /\ batch_calls <= 3
    /\ batch_pc = "attempting" => batch_calls = attempt /\ attempt < 3
    /\ batch_pc = "returned" => batch_calls = attempt + 1
    /\ batch_pc = "fallback" => batch_calls = 3 /\ attempt = 2

C4_Transition ==
    /\ batch_pc = "attempting"
    /\ batch_calls' = batch_calls + 1
    /\ \/ batch_pc' = "returned" /\ attempt' = attempt
       \/ batch_pc' = "attempting" /\ attempt < 2 /\ attempt' = attempt + 1
       \/ batch_pc' = "fallback" /\ attempt = 2 /\ attempt' = attempt

C4_BoundedAttemptMachine ==
    []C4_AttemptCounts /\ [][C4_Transition]_vars

C4_Witness ==
    /\ batch_pc = "returned"
    /\ attempt = 1
    /\ batch_calls = 2
    /\ last_error = "MissingKey"

\* C5: generate_queries never raises; after 3 failed attempts it has
\* returned the plan with both lists empty, having invoked the model exactly
\* 3 times; when attempt k succeeds it has returned that attempt's plan after
\* exactly k invocations.
C5_PlannerNeverRaises ==
    /\ plan_pc # "raised"
    /\ plan_calls <= 3
    /\ plan_pc = "attempting" => plan_calls = plan_attempt /\ plan_attempt < 3
    /\ (plan_calls = 3 /\ plan_pc # "returned") => plan_pc = "fallback"
    /\ plan_pc = "fallback" =>
         /\ plan.twitter = <<>>
         /\ plan.youtube = <<>>
         /\ plan_calls = 3
    /\ plan_pc = "returned" =>
         /\ plan_calls = plan_attempt + 1
         /\ PlanTry(plan_response, GetDefaultDates).ok
         /\ plan = PlanTry(plan_response, GetDefaultDates).value

C5_Witness ==
    /\ plan_pc = "fallback"
    /\ plan_calls = 3
    /\ plan_error = "InvokeError"

\* C6: on an empty list calculate_overall_analysis returns score 0.0 and the
\* "No content analyzed." narratives without invoking the model; on a
\* non-empty list it invokes the model exactly once.
C6_EmptyListNoCall ==
    /\ Len(results) = 0 => agg_pc # "raised"
    /\ agg_pc = "returned" =>
         IF Len(results) = 0
         THEN /\ overall.combined_risk_score.num = 0
              /\ overall.combined_risk_score.den # 0
              /\ overall.pattern_analysis = "No content analyzed."
              /\ overall.cross_references = "No content analyzed."
              /\ agg_calls = 0
         ELSE agg_calls = 1

C6_Witness ==
    /\ agg_pc = "returned"
    /\ results = <<>>
    /\ agg_calls = 0

\* C7: for a non-empty list the combined score is
\* sum(risk*confidence)/sum(confidence) when sum(confidence) # 0 and the
\* plain mean sum(risk)/n otherwise; for risks 0.9, 0.4, 0.1 with
\* confidences 1.0, 0.5, 0.0 it is (0.9*1.0 + 0.4*0.5)/1.5.
C7_WeightedMean ==
    (agg_pc = "returned" /\ results # <<>>) =>
        LET n == Len(results)
            score == overall.combined_risk_score
            weight == Sigma([i \in 1..n |-> results[i].confidence_score], n)
            weighted == Sigma([i \in 1..n |->
                                 results[i].risk_score * results[i].confidence_score], n)
            plain == Sigma([i \in 1..n |-> results[i].risk_score], n)
        IN /\ score.den # 0
           /\ weight # 0 => score.num * weight = weighted * score.den
           /\ weight = 0 => score.num * n = plain * score.den
           /\ results = ScenarioResults =>
                score.num * 15 = (9 * 10 + 4 * 5) * score.den

C7_Witness ==
    /\ agg_pc = "returned"
    /\ results = ScenarioResults
    /\ overall.combined_risk_score = Frac(110, 15)

\* C8: when at least one assessment has confidence_score > 0, the combined
\* score lies between the least and the greatest risk_score of the list.
C8_WithinMinMax ==
    (/\ agg_pc = "returned"
     /\ \E i \in DOMAIN results : results[i].confidence_score > 0) =>
        /\ \E i \in DOMAIN results :
             FracGeq(overall.combined_risk_score, results[i].risk_score)
        /\ \E i \in DOMAIN results :
             FracLeq(overall.combined_risk_score, results[i].risk_score)

\* the narrative the model was asked for: a message whose cleaned text
\* decodes to a mapping with both narratives as strings
NarrativeParses(response) ==
    /\ response.kind = "message"
    /\ LET loaded == SafeLoad(CleanYaml(response.content)) IN
       /\ loaded.ok
       /\ IsMap(loaded.value)
       /\ "pattern_analysis" \in DOMAIN loaded.value.map
       /\ IsStr(loaded.value.map.pattern_analysis)
       /\ "cross_references" \in DOMAIN loaded.value.map
       /\ IsStr(loaded.value.map.cross_references)

\* C9: for a non-empty list the call never raises, and when the narrative
\* step fails (the invocation raises, the response is empty, or it does not
\* parse into the record with both narratives) the report keeps the
\* combined score and both narratives are the fixed error placeholders.
C9_NarrativeFailureIsolated ==
    /\ agg_pc # "raised"
    /\ (agg_pc = "returned" /\ results # <<>> /\ ~NarrativeParses(agg_response)) =>
         /\ overall.combined_risk_score = CombinedRisk(results)
         /\ overall.pattern_analysis = "Error generating pattern analysis."
         /\ overall.cross_references = "Error generating cross-reference analysis."

\* C10: every returned assessment has risk_score and confidence_score in
\* [0,1], and the combined score of the returned assessments is in [0,1].
C10_ScoresInUnitInterval ==
    BatchDone =>
        /\ \A i \in DOMAIN batch_result :
             /\ InScale(batch_result[i].risk_score)
             /\ InScale(batch_result[i].confidence_score)
        /\ batch_result # <<>> =>
             /\ FracGeq(CombinedRisk(batch_result), 0)
             /\ FracLeq(CombinedRisk(batch_result), One)

----------------------------------------------------------------------------
(* The parse outcomes *)

\* the text of a response; none when there is no response
ContentOf(response) ==
    IF response.kind = "message" THEN response.content ELSE <<>>

\* the outcome class of a parse, by the step that stopped it
OutcomeClass(outcome) ==
    IF outcome.ok THEN "Record"
    ELSE CASE outcome.error \in {"EmptyResponse", "EmptyYaml"} -> "EmptyResponse"
           [] outcome.error \in {"YAMLError", "EmptyDict"} -> "MalformedStructure"
           [] OTHER -> "SchemaViolation"

\* a batch entry with the three required fields, each of its type
WellShapedEntry(e) ==
    /\ IsMap(e)
    /\ {"risk_score", "confidence_score", "context_analysis"} \subseteq DOMAIN e.map
    /\ IsNum(e.map.risk_score)
    /\ IsNum(e.map.confidence_score)
    /\ IsStr(e.map.context_analysis)

\* decoded data of the shape the batch parse is for: a mapping whose
\* content_analyses is a list of well-shaped entries
WellShapedBatch(v) ==
    /\ IsMap(v)
    /\ "content_analyses" \in DOMAIN v.map
    /\ IsList(v.map.content_analyses)
    /\ \A i \in DOMAIN v.map.content_analyses.list :
         WellShapedEntry(v.map.content_analyses.list[i])

\* an optional field of an entry is absent, null, or of one of the kinds
OptionalOf(d, key, kinds) ==
    key \in DOMAIN d => (IsNull(d[key]) \/ DOMAIN d[key] \cap kinds # {})

WellShapedTwitterEntry(e) ==
    /\ IsMap(e)
    /\ {"query", "description"} \subseteq DOMAIN e.map
    /\ IsStr(e.map.query)
    /\ IsStr(e.map.description)
    /\ OptionalOf(e.map, "section", {"str"})
    /\ OptionalOf(e.map, "language", {"str"})
    /\ OptionalOf(e.map, "start_date", {"date", "iso"})
    /\ OptionalOf(e.map, "end_date", {"date", "iso"})

WellShapedYouTubeEntry(e) ==
    /\ IsMap(e)
    /\ {"query", "description"} \subseteq DOMAIN e.map
    /\ IsStr(e.map.query)
    /\ IsStr(e.map.description)

\* decoded data of the shape the plan parse is for
WellShapedPlan(v) ==
    /\ IsMap(v)
    /\ {"twitter", "youtube"} \subseteq DOMAIN v.map
    /\ IsList(v.map.twitter)
    /\ IsList(v.map.youtube)
    /\ \A i \in DOMAIN v.map.twitter.list : WellShapedTwitterEntry(v.map.twitter.list[i])
    /\ \A i \in DOMAIN v.map.youtube.list : WellShapedYouTubeEntry(v.map.youtube.list[i])

\* the outcome class the text of an input calls for
ExpectedClass(input) ==
    LET cleaned == CleanYaml(ContentOf(input.response))
        loaded == SafeLoad(cleaned)
    IN IF cleaned = <<>> THEN "EmptyResponse"
       ELSE IF ~loaded.ok \/ ~Truthy(loaded.value) THEN "MalformedStructure"
       ELSE IF input.kind = "batch" /\ ~WellShapedBatch(loaded.value)
       THEN "SchemaViolation"
       ELSE IF input.kind = "plan" /\ ~WellShapedPlan(loaded.value)
       THEN "SchemaViolation"
       ELSE "Record"

\* the records of a batch parse carry the values of the listed entries
RecordsCarryValues(input, outcome) ==
    LET entries == SafeLoad(CleanYaml(ContentOf(input.response))).value
                     .map.content_analyses.list
    IN /\ Len(outcome.value) = Len(entries)
       /\ \A i \in DOMAIN entries :
            /\ outcome.value[i].risk_score = entries[i].map.risk_score.num
            /\ outcome.value[i].confidence_score = entries[i].map.confidence_score.num
            /\ outcome.value[i].context_analysis = entries[i].map.context_analysis.str

\* C11: a parse step ends in exactly one of four outcomes, fixed by its
\* input: EmptyResponse when the text is empty after the fence markers and
\* white space are stripped; MalformedStructure when the decoder errors or
\* yields an empty or absent result; SchemaViolation when the decoded data
\* misses a required field or has one of the wrong shape; and otherwise the
\* record, with the risk_score, confidence_score and context_analysis given.
C11_ParseClassification ==
    (unit_pc = "done" /\ unit_input.kind \in {"batch", "plan"}) =>
        /\ OutcomeClass(unit_outcome) = ExpectedClass(unit_input)
        /\ (unit_input.kind = "batch" /\ unit_outcome.ok) =>
             RecordsCarryValues(unit_input, unit_outcome)

----------------------------------------------------------------------------
(* TwitterSearchQuery *)

\* the entry of a construction, as a dict
QueryInput == unit_input.entry.map

\* a TwitterSearchQuery construction has been applied to an entry
QueryBuilt == unit_pc = "done" /\ unit_input.kind = "query"

\* the entry without one of its keys
DropKey(d, key) == [k \in DOMAIN d \ {key} |-> d[k]]

\* C12: a TwitterSearchQuery given a section that is a non-empty string
\* other than "top" and "latest" is constructed without error (the entry
\* is accepted whenever it is accepted without its section) and has section
\* "latest"; "top" and "latest" are kept as given.
C12_SectionNormalised ==
    (/\ QueryBuilt
     /\ "section" \in DOMAIN QueryInput
     /\ IsStr(QueryInput.section)
     /\ QueryInput.section.str # "") =>
        /\ unit_outcome.ok = TwitterSearchQuery(Map(DropKey(QueryInput, "section"))).ok
        /\ unit_outcome.ok =>
             unit_outcome.value.section =
                 IF QueryInput.section.str \in {"top", "latest"}
                 THEN QueryInput.section
                 ELSE Str("latest")

C12_Witness ==
    /\ QueryBuilt
    /\ "section" \in DOMAIN QueryInput
    /\ QueryInput.section = Str("trending")
    /\ unit_outcome.ok
    /\ unit_outcome.value.section = Str("latest")

\* a returned query whose start date is later than its end date
StartsAfterEnd(query) ==
    /\ IsDate(query.start_date)
    /\ IsDate(query.end_date)
    /\ query.start_date.date > query.end_date.date

\* the date range of a search_tweets call has its start after its end
SearchStartsAfterEnd(args) ==
    /\ IsIso(args.start_date)
    /\ IsIso(args.end_date)
    /\ args.start_date.iso > args.end_date.iso

\* no request is sent for a date range that starts after it ends
C13_NoRequestForSuchRange ==
    SearchStartsAfterEnd(search_args) => search_requests = 0

\* C13: a social-post query whose start date is later than its end date is
\* rejected: no plan returned by generate_queries holds such a query, and no
\* search request is sent for such a date range.
C13_StartAfterEndRejected ==
    /\ plan_pc = "returned" =>
         \A i \in DOMAIN plan.twitter : ~StartsAfterEnd(plan.twitter[i])
    /\ search_pc # "idle" => C13_NoRequestForSuchRange

----------------------------------------------------------------------------
(* The plan *)

\* generate_queries has returned a plan
PlanDone == plan_pc \in {"returned", "fallback"}

\* the data decoded from the response a returned plan was built from
PlanData == SafeLoad(CleanYaml(ContentOf(plan_response))).value

\* C14: every plan generate_queries returns, from a response or after the
\* retries are exhausted, has both platform lists, twitter and youtube, each
\* possibly empty; a plan is built only from a response that has both
\* platform keys.
C14_BothPlatformLists ==
    /\ PlanDone =>
         /\ DOMAIN plan = {"twitter", "youtube"}
         /\ DOMAIN plan.twitter = 1..Len(plan.twitter)
         /\ DOMAIN plan.youtube = 1..Len(plan.youtube)
    /\ plan_pc = "returned" =>
         /\ IsMap(PlanData)
         /\ {"twitter", "youtube"} \subseteq DOMAIN PlanData.map

C14_Witness ==
    /\ plan_pc = "returned"
    /\ plan.twitter = <<>>
    /\ plan.youtube # <<>>
    /\ plan_calls = 2

----------------------------------------------------------------------------
(* search_tweets *)

\* the posts of the API response, none when the body lists none
RepliedPosts ==
    IF /\ search_reply.kind = "body"
       /\ IsMap(search_reply.data)
       /\ "results" \in DOMAIN search_reply.data.map
       /\ IsList(search_reply.data.map.results)
    THEN search_reply.data.map.results.list
    ELSE <<>>

\* C15: search_tweets drops no failure: a transport error, a non-success
\* status, or a failure while processing any returned post makes the call
\* raise, so a list it returns has one Tweet for every post of the API
\* response.
C15_NoFailureDropped ==
    /\ search_reply.kind \in {"transport_error", "status_error"} =>
         search_pc = "raised"
    /\ search_pc = "returned" =>
         /\ Len(search_result) = Len(RepliedPosts)
         /\ \A i \in DOMAIN RepliedPosts : ProcessTweetData(RepliedPosts[i]).ok

----------------------------------------------------------------------------
(* Pacing *)

\* C16: in analyze_multiple_texts and in generate_queries every model call,
\* whether it returned or raised, is followed by the 1-second delay before
\* the next call of the flow is issued: whenever the loop is about to
\* invoke the model, each call made so far has been followed by a delay.
C16_DelayAfterEveryCall ==
    /\ batch_pc = "attempting" => batch_sleeps = batch_calls
    /\ plan_pc = "attempting" => plan_sleeps = plan_calls

----------------------------------------------------------------------------
(* Required fields *)

\* the data decoded from the answer to the narrative invocation
NarrativeData == SafeLoad(CleanYaml(ContentOf(agg_response)))

\* the narrative answer decodes to a mapping that lacks the key
NarrativeLacks(key) ==
    /\ agg_response.kind = "message"
    /\ NarrativeData.ok
    /\ IsMap(NarrativeData.value)
    /\ key \notin DOMAIN NarrativeData.value.map

\* every entry behind a returned batch result has the three required fields
C17_BatchEntriesComplete ==
    batch_pc = "returned" =>
        \A i \in DOMAIN ListedEntries(batch_response) :
            LET entry == ListedEntries(batch_response)[i] IN
            /\ IsMap(entry)
            /\ {"risk_score", "confidence_score", "context_analysis"}
                 \subseteq DOMAIN entry.map

\* C17: no parse step fills in a default for a missing required field: a
\* batch entry without risk_score, confidence_score or context_analysis, or
\* a narrative answer without pattern_analysis or cross_references, is a
\* failed parse, handled by the caller's retry or fallback policy and never
\* returned as a successful result.
C17_NoSilentDefault ==
    /\ C17_BatchEntriesComplete
    /\ (/\ agg_pc = "returned"
        /\ results # <<>>
        /\ (NarrativeLacks("pattern_analysis") \/ NarrativeLacks("cross_references"))) =>
           overall = ErrorReport(CombinedRisk(results))

----------------------------------------------------------------------------
(* Default dates *)

\* the value a date of an entry has once it is read as a datetime
AsDate(v) == IF IsIso(v) THEN Date(v.iso) ELSE v

\* the model supplied a date under the key
Supplied(d, key) == key \in DOMAIN d /\ ~IsNull(d[key])

\* the returned date is the supplied one, or the default when none is
DateFilled(returned, d, key, default) ==
    /\ IsDate(returned)
    /\ returned = IF Supplied(d, key) THEN AsDate(d[key]) ELSE Date(default)

\* C18: in a plan returned by generate_queries every twitter query has both
\* dates set: a date the model supplied is kept as given, a start date it
\* did not supply is today minus 30 days and an end date it did not supply
\* is today.
C18_DefaultDatesFilled ==
    plan_pc = "returned" =>
        \A i \in DOMAIN plan.twitter :
            LET d == PlanData.map.twitter.list[i].map IN
            /\ DateFilled(plan.twitter[i].start_date, d, "start_date",
                          Today - DefaultWindowDays)
            /\ DateFilled(plan.twitter[i].end_date, d, "end_date", Today)

----------------------------------------------------------------------------
(* Language *)

\* C19: a TwitterSearchQuery given a language string that is not a
\* 2-letter code, the empty string included, has language "ja"; a 2-letter
\* value is kept as given; and construction never fails because of the
\* language value (the entry is accepted whenever it is accepted without
\* its language).
C19_LanguageNormalised ==
    (/\ QueryBuilt
     /\ "language" \in DOMAIN QueryInput
     /\ IsStr(QueryInput.language)) =>
        /\ unit_outcome.ok = TwitterSearchQuery(Map(DropKey(QueryInput, "language"))).ok
        /\ unit_outcome.ok =>
             unit_outcome.value.language =
                 IF Len(QueryInput.language.str) = 2
                 THEN QueryInput.language
                 ELSE Str("ja")

----------------------------------------------------------------------------
(* Search parameters *)

\* a threshold below zero
Negative(v) == IsNum(v) /\ v.num < 0

\* a date argument that is given and is not a YYYY-MM-DD text
BadDateFormat(v) == ~IsNull(v) /\ ~IsIso(v)

\* the parameters the claim calls invalid
InvalidSearchArgs(args) ==
    \/ ~IsNull(args.section) /\ args.section \notin {Str("top"), Str("latest")}
    \/ ~IsNull(args.language) /\ Len(args.language.str) # 2
    \/ Negative(args.min_retweets)
    \/ Negative(args.min_likes)
    \/ Negative(args.min_replies)
    \/ BadDateFormat(args.start_date)
    \/ BadDateFormat(args.end_date)
    \/ SearchStartsAfterEnd(args)

\* search_tweets has returned or raised
SearchDone == search_pc \in {"returned", "raised"}

\* C20: search_tweets with invalid parameters (a section outside top and
\* latest, a language that is not 2 letters, a negative engagement
\* threshold, a date not in YYYY-MM-DD format, a start after the end)
\* raises a validation error before any HTTP request: the call ends raised,
\* having made zero requests.
C20_InvalidParamsRaiseBeforeRequest ==
    (SearchDone /\ InvalidSearchArgs(search_args)) =>
        /\ search_pc = "raised"
        /\ search_error \in {"ValidationError", "ValueError"}
        /\ search_requests = 0

----------------------------------------------------------------------------
(* The runs of main.py *)

IsSearch(entry) == entry.call = "search_tweets"
IsScoring(entry) == entry.call = "analyze_multiple_texts"
IsAggregation(entry) == entry.call = "calculate_overall_analysis"

\* the search calls of the current run, in order
SearchCalls == SelectSeq(run_log, IsSearch)

\* the content items the given search calls returned, in order
RECURSIVE RetrievedBy(_)
RetrievedBy(calls) ==
    IF calls = <<>> THEN <<>>
    ELSE LET outcome == calls[1].arg.outcome
         IN (IF outcome.ok
             THEN [i \in 1..Len(outcome.value) |-> ContentItem(outcome.value[i])]
             ELSE <<>>)
            \o RetrievedBy(Tail(calls))

\* the content items retrieved by the searches of the current run
Retrieved == RetrievedBy(SearchCalls)

\* the search loop of the current run has been entered and left
SearchesOver == run_pc # "searching" /\ SearchCalls # <<>>

\* the items of the current run have been handed to the batch scoring
Analyzed(items) ==
    \E i \in DOMAIN run_log : IsScoring(run_log[i]) /\ run_log[i].arg = items

\* C21: a failed search is reported and the run goes on. Every failed
\* search call of the run is followed at once by an error report; once the
\* search loop is left, every Twitter query of the plan has been searched,
\* in the order of the plan, and the items the successful searches
\* retrieved are analyzed: the run is about to score them or has handed
\* exactly them to the batch scoring.
C21_SearchFailureIsolated ==
    /\ \A i \in DOMAIN run_log :
         (IsSearch(run_log[i]) /\ ~run_log[i].arg.outcome.ok)
             => /\ i < Len(run_log)
                /\ run_log[i + 1].call = "st.error"
    /\ SearchesOver =>
         /\ Len(SearchCalls) = Len(run_plan.twitter)
         /\ \A i \in DOMAIN SearchCalls :
              SearchCalls[i].arg.kwargs.query = run_plan.twitter[i].query
         /\ Retrieved # <<>> => (run_pc = "scoring" \/ Analyzed(Retrieved))

\* a run whose first search failed, whose second search retrieved items,
\* and whose items were scored
C21_Witness ==
    /\ Len(SearchCalls) = 2
    /\ ~SearchCalls[1].arg.outcome.ok
    /\ SearchCalls[2].arg.outcome.ok
    /\ Retrieved # <<>>
    /\ Analyzed(Retrieved)

\* the keyword arguments that pass on everything the planner generated for
\* a social-post query
FullKwargs(query) ==
    [query |-> query.query, section |-> query.section,
     start_date |-> query.start_date, end_date |-> query.end_date,
     language |-> query.language]

\* C22: every query of the plan is consumed by its platform's search. Each
\* search call of the run carries the text, section, date range and
\* language of its query, and once the run is past its searches every
\* video query of the plan has been searched by text.
C22_EveryQueryConsumed ==
    /\ \A i \in DOMAIN SearchCalls :
         SearchCalls[i].arg.kwargs = FullKwargs(run_plan.twitter[i])
    /\ run_pc # "searching" =>
         \A j \in DOMAIN run_plan.youtube :
            \E i \in DOMAIN run_log :
               /\ run_log[i].call = "search_videos"
               /\ run_log[i].arg.kwargs.query = run_plan.youtube[j].query

\* the place of a call in the order of a run; a report is no external call
Phase(entry) ==
    IF entry.call = "generate_queries" THEN 1
    ELSE IF IsSearch(entry) THEN 2
    ELSE IF IsScoring(entry) THEN 3
    ELSE IF IsAggregation(entry) THEN 4
    ELSE 0

IsExternal(entry) == Phase(entry) > 0

\* the external calls of the current run, in order
ExternalCalls == SelectSeq(run_log, IsExternal)

\* the planner of the current run returned a plan with no query
PlanIsEmpty == run_plan.twitter = <<>> /\ run_plan.youtube = <<>>

\* C23: the external calls of a run come in the order planner, searches,
\* batch scoring, aggregation, and are gated. The planner is called first
\* and once; scoring and aggregation are called at most once and never
\* before a call of an earlier kind; after an empty plan the planner call is
\* the only external call of the run; when the searches retrieved no item,
\* the run neither scores nor aggregates; aggregation is called only after
\* the batch scoring was called and has returned its analyses.
C23_CallOrderAndGating ==
    /\ ExternalCalls # <<>> => Phase(ExternalCalls[1]) = 1
    /\ \A i, j \in DOMAIN ExternalCalls :
         i < j => /\ Phase(ExternalCalls[i]) <= Phase(ExternalCalls[j])
                  /\ Phase(ExternalCalls[i]) = Phase(ExternalCalls[j])
                        => IsSearch(ExternalCalls[i])
    /\ PlanIsEmpty => Len(ExternalCalls) <= 1 /\ run_pc = "idle"
    /\ (run_pc # "searching" /\ Retrieved = <<>>) =>
         /\ run_pc = "idle"
         /\ \A i \in DOMAIN run_log :
              ~IsScoring(run_log[i]) /\ ~IsAggregation(run_log[i])
    /\ run_pc = "aggregating" =>
         /\ IsScoring(run_log[Len(run_log)])
         /\ run_analyses \in RunAnalyses(run_log[Len(run_log)].arg)
    /\ \A j \in DOMAIN run_log :
         IsAggregation(run_log[j]) =>
            /\ j > 1
            /\ IsScoring(run_log[j - 1])
            /\ run_log[j].arg = run_analyses

\* a finished run that called the planner, two searches, the batch scoring
\* and the aggregation
C23_Witness ==
    /\ run_pc = "idle"
    /\ Len(ExternalCalls) = 5
    /\ IsAggregation(ExternalCalls[5])

\* a run that ended at the gate of the analysis: searches were made and
\* retrieved nothing, and the run is over without scoring
C23_GateWitness ==
    /\ run_pc = "idle"
    /\ SearchCalls # <<>>
    /\ Retrieved = <<>>

\* the current run has called the aggregation and stored its report
ReportStored == \E i \in DOMAIN run_log : IsAggregation(run_log[i])

\* C24: in every run of a session, the items handed to the batch scoring
\* are exactly the items the searches of that run retrieved. From the
\* first search of a run on, the stored search results are the items
\* retrieved in this run and nothing else; every scoring call of the run
\* receives exactly these; the report a run stores pairs items of this run
\* with the analyses of this run; a run with an empty plan or without input
\* scores nothing, whatever earlier runs left in the session.
C24_RunsIsolated ==
    /\ run_pc # "idle" => session.search_results = Retrieved
    /\ \A i \in DOMAIN run_log :
         IsScoring(run_log[i]) => run_log[i].arg = Retrieved
    /\ ReportStored =>
         /\ session.search_results = Retrieved
         /\ Len(session.all_results) <= Len(Retrieved)
         /\ \A k \in DOMAIN session.all_results :
              /\ session.all_results[k].result = Retrieved[k]
              /\ session.all_results[k].analysis = run_analyses[k]
         /\ session.overall_analysis \in RunReports(run_analyses)
    /\ (PlanIsEmpty /\ run_count > 0) =>
         /\ run_pc = "idle"
         /\ \A i \in DOMAIN run_log :
              ~IsScoring(run_log[i]) /\ ~IsAggregation(run_log[i])

\* a later run about to score the one item it retrieved, while the session
\* still holds the report of an earlier run that retrieved two
C24_Witness ==
    /\ run_count > 1
    /\ run_pc = "scoring"
    /\ Len(session.all_results) = 2
    /\ Len(Retrieved) = 1
    /\ session.search_results = Retrieved

\* a run with an empty plan after a run with results: the results of the
\* earlier run are still in the session and nothing was scored
C24_EmptyPlanWitness ==
    /\ run_count > 1
    /\ run_pc = "idle"
    /\ PlanIsEmpty
    /\ session.search_results # <<>>
    /\ Len(run_log) = 2

====
